---- MODULE Spec2Model ----
(***************************************************************************)
(* Model of raspberrypi.com/products/batch.py: the batch entry point that  *)
(* loads a structure document, validates it against STRUCTURE_SCHEMA,      *)
(* flattens the topic forest into WorkItems, sorts them by path, selects   *)
(* one contiguous batch by (group_index, group_count) and runs one crawl   *)
(* worker per WorkItem of the batch.                                       *)
(*                                                                         *)
(* Strings are sequences of one-character strings, so that str.replace,    *)
(* str.join and the code-point ordering used by sorted() are computed.     *)
(* JSON values are tagged records [type, value].                           *)
(***************************************************************************)
EXTENDS Integers, Sequences, FiniteSets, TLC

VARIABLES
    data,           \* data[p]: the parsed structure document of invocation p
    group_count,    \* --group_count (shared by the invocations)
    group_index,    \* group_index[p]: --group_index of invocation p
    pc,             \* pc[p]: position of invocation p in main()
    topics,         \* topics[p]: the local `topics` of main()
    current_group,  \* current_group[p]: the local `current_group` of main()
    calls,          \* calls[p]: the subprocess.run calls made so far, in order
    error,          \* error[p]: the exception that ended invocation p, or "none"
    fs,             \* output directories that exist on the shared file system
    topic_range,    \* topic_range[p]: --topic_range of invocation p
    last_run        \* last_run[p]: what happened in the worker that exited last

vars == <<data, group_count, group_index, pc, topics, current_group, calls, error, fs,
          topic_range, last_run>>

Procs == {1, 2}

----------------------------------------------------------------------------
(* Bounds of the model *)

MaxNodes == 3        \* nodes of a structure document (main specification)
MaxGroups == 4       \* largest --group_count
MaxT == 10           \* longest sorted WorkItem sequence given to the partitioner
MaxTokens == 2       \* tokens per breadcrumb string (path specification)
MaxCrumbs == 2       \* breadcrumbs per node (path specification)
PairMaxNodes == 2    \* nodes of a document (two-invocation specification)
RangeMaxNodes == 2   \* nodes of a document (topic_range specification)
WorkerMaxNodes == 2  \* nodes of a document (crawl worker specification)

----------------------------------------------------------------------------
(* Strings *)

Min(a, b) == IF a < b THEN a ELSE b

\* Unicode code point of a character (Python compares str by code point).
Ord(c) ==
    CASE c = "/" -> 47 [] c = "1" -> 49 [] c = "2" -> 50 [] c = ":" -> 58
      [] c = "_" -> 95 [] c = "a" -> 97 [] c = "b" -> 98 [] c = "h" -> 104
      [] c = "l" -> 108 [] c = "o" -> 111 [] c = "s" -> 115 [] c = "x" -> 120

\* s < t for Python str: lexicographic by code point, a proper prefix first.
StrLess(s, t) ==
    \E i \in 1..(Min(Len(s), Len(t)) + 1) :
        /\ \A j \in 1..(i - 1) : s[j] = t[j]
        /\ \/ i > Len(s) /\ i <= Len(t)
           \/ i <= Len(s) /\ i <= Len(t) /\ Ord(s[i]) < Ord(t[i])

SLASH == <<"_", "s", "l", "a", "s", "h", "_">>

RECURSIVE replace_slash(_)
\* t.replace("/", "_slash_")
replace_slash(t) ==
    IF t = <<>> THEN <<>>
    ELSE (IF Head(t) = "/" THEN SLASH ELSE <<Head(t)>>) \o replace_slash(Tail(t))

RECURSIVE join(_, _)
\* sep.join(parts)
join(sep, parts) ==
    IF parts = <<>> THEN <<>>
    ELSE IF Len(parts) = 1 THEN parts[1]
    ELSE parts[1] \o sep \o join(sep, Tail(parts))

\* os.path.join(a, b) on POSIX
path_join(a, b) ==
    IF b # <<>> /\ Head(b) = "/" THEN b
    ELSE IF a = <<>> \/ a[Len(a)] = "/" THEN a \o b
    ELSE a \o <<"/">> \o b

----------------------------------------------------------------------------
(* JSON values *)

JStr(s) == [type |-> "string", value |-> s]
JNum(n) == [type |-> "number", value |-> n]
JArr(xs) == [type |-> "array", value |-> xs]
JObj(r) == [type |-> "object", value |-> r]

----------------------------------------------------------------------------
(* STRUCTURE_SCHEMA and jsonschema.validate *)

REQUIRED == {"name", "sub_topics", "url"}
PROPERTIES == {"name", "sub_topics", "url", "breadcrumbs"}

\* format "uri": a non-empty scheme, then ":".
IsUri(s) == \E i \in 2..Len(s) : s[i] = ":" /\ \A j \in 1..(i - 1) : s[j] # ":" /\ s[j] # "/"

\* {"type": "string", "minLength": 1}
NonEmptyString(v) == v.type = "string" /\ Len(v.value) >= 1

\* the "breadcrumbs" property of a topic
BreadcrumbsOk(v) ==
    /\ v.type = "array"
    /\ Len(v.value) >= 1
    /\ \A i \in 1..Len(v.value) : NonEmptyString(v.value[i])

RECURSIVE TopicOk(_, _)
\* #/definitions/topic; `formats` tells whether "format" keywords are asserted.
TopicOk(t, formats) ==
    /\ t.type = "object"
    /\ REQUIRED \subseteq DOMAIN t.value
    /\ DOMAIN t.value \subseteq PROPERTIES
    /\ NonEmptyString(t.value["name"])
    /\ NonEmptyString(t.value["url"])
    /\ formats => IsUri(t.value["url"].value)
    /\ t.value["sub_topics"].type = "array"
    /\ \A i \in 1..Len(t.value["sub_topics"].value) :
           TopicOk(t.value["sub_topics"].value[i], formats)
    /\ "breadcrumbs" \in DOMAIN t.value => BreadcrumbsOk(t.value["breadcrumbs"])

\* the schema as a whole
SchemaOk(d, formats) ==
    /\ d.type = "array"
    /\ Len(d.value) >= 1
    /\ \A i \in 1..Len(d.value) : TopicOk(d.value[i], formats)

\* validate(instance=data, schema=STRUCTURE_SCHEMA): no format_checker is
\* passed, so jsonschema treats "format" as an annotation and asserts nothing.
validate(d) == SchemaOk(d, FALSE)

----------------------------------------------------------------------------
(* Flattener: get_all_topics and the comprehension over the roots *)

\* A computed value, or the exception raised while computing it.
Ok(v) == [err |-> "none", val |-> v]
Raise(e) == [err |-> e, val |-> <<>>]

\* "/".join([t.replace("/", "_slash_") for t in breadcrumbs])
path_of(breadcrumbs) ==
    join(<<"/">>, [i \in 1..Len(breadcrumbs) |-> replace_slash(breadcrumbs[i])])

RECURSIVE get_all_topics(_)
RECURSIVE flat_map(_)

\* [descendant for t in items for descendant in get_all_topics(t)]
flat_map(items) ==
    IF items = <<>> THEN Ok(<<>>)
    ELSE LET first == get_all_topics(Head(items))
         IN  IF first.err # "none" THEN first
             ELSE LET rest == flat_map(Tail(items))
                  IN  IF rest.err # "none" THEN rest
                      ELSE Ok(first.val \o rest.val)

\* A variant that substitutes an empty breadcrumb list for a missing key.
get_all_topics_default(topic) ==
    LET crumbs == IF "breadcrumbs" \in DOMAIN topic.value
                  THEN topic.value["breadcrumbs"].value ELSE <<>>
        item == [url |-> topic.value["url"].value,
                 path |-> path_of([i \in 1..Len(crumbs) |-> crumbs[i].value])]
        subs == flat_map(topic.value["sub_topics"].value)
    IN  IF subs.err # "none" THEN subs ELSE Ok(<<item>> \o subs.val)

\* A variant that emits the children before their parent.
get_all_topics_postorder(topic) ==
    IF "breadcrumbs" \notin DOMAIN topic.value THEN Raise("KeyError")
    ELSE LET crumbs == topic.value["breadcrumbs"].value
             item == [url |-> topic.value["url"].value,
                      path |-> path_of([i \in 1..Len(crumbs) |-> crumbs[i].value])]
             subs == flat_map(topic.value["sub_topics"].value)
         IN  IF subs.err # "none" THEN subs ELSE Ok(subs.val \o <<item>>)

\* get_all_topics(topic): topic["breadcrumbs"] raises KeyError when absent.
get_all_topics(topic) ==
    IF "breadcrumbs" \notin DOMAIN topic.value THEN Raise("KeyError")
    ELSE LET crumbs == topic.value["breadcrumbs"].value
             item == [url |-> topic.value["url"].value,
                      path |-> path_of([i \in 1..Len(crumbs) |-> crumbs[i].value])]
             subs == flat_map(topic.value["sub_topics"].value)
         IN  IF subs.err # "none" THEN subs ELSE Ok(<<item>> \o subs.val)

\* number of elements of t whose key is <= the key of x
KeysNotAfter(t, x) == Cardinality({i \in 1..Len(t) : ~StrLess(x.path, t[i].path)})

RECURSIVE sorted(_)
\* sorted(topics, key=lambda x: x["path"]): stable, ascending by path.
sorted(s) ==
    IF s = <<>> THEN <<>>
    ELSE LET n == Len(s)
             t == sorted(SubSeq(s, 1, n - 1))
             k == KeysNotAfter(t, s[n])
         IN  SubSeq(t, 1, k) \o <<s[n]>> \o SubSeq(t, k + 1, Len(t))

----------------------------------------------------------------------------
(* Partitioner *)

\* s[a:b] for 0 <= a, 0 <= b
slice(s, a, b) == SubSeq(s, Min(a, Len(s)) + 1, Min(b, Len(s)))

\* A variant that rounds the quotient down.
batch_size_floor(T, count) == T \div count

\* len(topics) // group_count + (len(topics) % group_count > 0)
batch_size(T, count) == T \div count + (IF T % count > 0 THEN 1 ELSE 0)

\* A variant whose slice ends one element early.
batch_short(s, index, count) ==
    slice(s, index * batch_size(Len(s), count), (index + 1) * batch_size(Len(s), count) - 1)

\* topics[group_index * batch_size : (group_index + 1) * batch_size]
batch(s, index, count) ==
    slice(s, index * batch_size(Len(s), count), (index + 1) * batch_size(Len(s), count))

OutputDir == <<"o">>

----------------------------------------------------------------------------
(* --topic_range *)

STAR == <<"*">>

DIGITS == <<"0", "1", "2", "3", "4", "5", "6", "7", "8", "9">>
IsDigit(c) == \E d \in 1..Len(DIGITS) : DIGITS[d] = c
DigitValue(c) == (CHOOSE d \in 1..Len(DIGITS) : DIGITS[d] = c) - 1

RECURSIVE str_split(_, _)
\* s.split(sep) for a one-character sep
str_split(s, sep) ==
    IF \A i \in 1..Len(s) : s[i] # sep THEN <<s>>
    ELSE LET i == CHOOSE j \in 1..Len(s) : s[j] = sep /\ \A k \in 1..(j - 1) : s[k] # sep
         IN  <<SubSeq(s, 1, i - 1)>> \o str_split(SubSeq(s, i + 1, Len(s)), sep)

RECURSIVE digits_value(_)
digits_value(s) ==
    IF s = <<>> THEN 0 ELSE 10 * digits_value(SubSeq(s, 1, Len(s) - 1)) + DigitValue(s[Len(s)])

\* int(s) for a string without "-": digits, after an optional "+"
py_int(s) ==
    LET body == IF s # <<>> /\ Head(s) = "+" THEN Tail(s) ELSE s
    IN  IF body # <<>> /\ \A i \in 1..Len(body) : IsDigit(body[i])
        THEN Ok(digits_value(body))
        ELSE Raise("ValueError")

\* if args.topic_range != "*": start, end = map(int, args.topic_range.split("-"))
parse_range(s) ==
    IF s = STAR THEN Ok(<<>>)
    ELSE LET parts == str_split(s, "-")
         IN  IF \E i \in 1..Min(Len(parts), 3) : py_int(parts[i]).err # "none"
             THEN Raise("ValueError")
             ELSE IF Len(parts) # 2 THEN Raise("ValueError")
             ELSE Ok(<<py_int(parts[1]).val, py_int(parts[2]).val>>)

----------------------------------------------------------------------------
(* main(): one action per step between two points where the process can be
   observed; p is the invocation. *)

Set(f, p, v) == [f EXCEPT ![p] = v]

\* json.load and validate: jsonschema.ValidationError ends the process.
Validate(p) ==
    /\ pc[p] = "start"
    /\ IF validate(data[p])
       THEN /\ pc' = Set(pc, p, "validated")
            /\ error' = error
       ELSE /\ pc' = Set(pc, p, "failed")
            /\ error' = Set(error, p, "ValidationError")
    /\ UNCHANGED <<data, group_count, group_index, topics, current_group, calls, fs,
                 topic_range, last_run>>

\* A variant that narrows the topics to topics[start:end].
FlattenFiltered(p) ==
    /\ pc[p] = "validated"
    /\ LET flat == flat_map(data[p].value)
           range == parse_range(topic_range[p])
       IN  IF flat.err # "none"
           THEN /\ topics' = topics
                /\ pc' = Set(pc, p, "failed")
                /\ error' = Set(error, p, flat.err)
           ELSE IF range.err # "none"
           THEN /\ topics' = Set(topics, p, sorted(flat.val))
                /\ pc' = Set(pc, p, "failed")
                /\ error' = Set(error, p, range.err)
           ELSE /\ topics' = Set(topics, p,
                        IF range.val = <<>> THEN sorted(flat.val)
                        ELSE slice(sorted(flat.val), range.val[1], range.val[2]))
                /\ pc' = Set(pc, p, "flattened")
                /\ error' = error
    /\ UNCHANGED <<data, group_count, group_index, current_group, calls, fs,
                   topic_range, last_run>>

\* topics = [...]; topics = sorted(topics, ...); the topic_range is parsed
\* and printed: KeyError or ValueError ends the process.
Flatten(p) ==
    /\ pc[p] = "validated"
    /\ LET flat == flat_map(data[p].value)
           range == parse_range(topic_range[p])
       IN  IF flat.err # "none"
           THEN /\ topics' = topics
                /\ pc' = Set(pc, p, "failed")
                /\ error' = Set(error, p, flat.err)
           ELSE IF range.err # "none"
           THEN /\ topics' = Set(topics, p, sorted(flat.val))
                /\ pc' = Set(pc, p, "failed")
                /\ error' = Set(error, p, range.err)
           ELSE /\ topics' = Set(topics, p, sorted(flat.val))
                /\ pc' = Set(pc, p, "flattened")
                /\ error' = error
    /\ UNCHANGED <<data, group_count, group_index, current_group, calls, fs,
                   topic_range, last_run>>

\* batch_size = ...; current_group = topics[...]
Partition(p) ==
    /\ pc[p] = "flattened"
    /\ current_group' = Set(current_group, p, batch(topics[p], group_index[p], group_count))
    /\ pc' = Set(pc, p, "loop")
    /\ UNCHANGED <<data, group_count, group_index, topics, calls, error, fs, topic_range, last_run>>

\* A variant that starts the worker without waiting for it.
StartWorkerNoWait(p) ==
    /\ pc[p] = "loop"
    /\ Len(calls[p]) < Len(current_group[p])
    /\ LET topic == current_group[p][Len(calls[p]) + 1]
       IN  calls' = Set(calls, p, Append(calls[p],
                        [url |-> topic.url,
                         out |-> path_join(OutputDir, topic.path),
                         status |-> "running"]))
    /\ UNCHANGED <<data, group_count, group_index, topics, current_group, pc, error, fs,
                 topic_range, last_run>>

\* the next iteration of `for topic in current_group`: subprocess.run starts
\* the worker and blocks.
StartWorker(p) ==
    /\ pc[p] = "loop"
    /\ Len(calls[p]) < Len(current_group[p])
    /\ LET topic == current_group[p][Len(calls[p]) + 1]
       IN  calls' = Set(calls, p, Append(calls[p],
                        [url |-> topic.url,
                         out |-> path_join(OutputDir, topic.path),
                         status |-> "running"]))
    /\ pc' = Set(pc, p, "wait")
    /\ UNCHANGED <<data, group_count, group_index, topics, current_group, error, fs,
                 topic_range, last_run>>

\* A variant that goes on to the next item after a failed worker.
WorkerExitIgnore(p, rc, made) ==
    /\ pc[p] = "wait"
    /\ rc = 0 => made
    /\ calls' = Set(calls, p, [calls[p] EXCEPT ![Len(calls[p])].status =
                                   IF rc = 0 THEN "ok" ELSE "failed"])
    /\ fs' = IF made THEN fs \cup {calls[p][Len(calls[p])].out} ELSE fs
    /\ pc' = Set(pc, p, "loop")
    /\ UNCHANGED <<data, group_count, group_index, topics, current_group, error, topic_range>>

\* the worker exits with return code rc, having created its output
\* directory or not (`made`); check=True raises CalledProcessError on rc # 0.
WorkerExit(p, rc, made) ==
    /\ pc[p] = "wait"
    /\ rc = 0 => made
    /\ calls' = Set(calls, p, [calls[p] EXCEPT ![Len(calls[p])].status =
                                   IF rc = 0 THEN "ok" ELSE "failed"])
    /\ fs' = IF made THEN fs \cup {calls[p][Len(calls[p])].out} ELSE fs
    /\ IF rc = 0
       THEN /\ pc' = Set(pc, p, "loop")
            /\ error' = error
       ELSE /\ pc' = Set(pc, p, "failed")
            /\ error' = Set(error, p, "CalledProcessError")
    /\ UNCHANGED <<data, group_count, group_index, topics, current_group, topic_range>>

\* the loop is exhausted and main() returns: exit status 0.
Finish(p) ==
    /\ pc[p] = "loop"
    /\ Len(calls[p]) = Len(current_group[p])
    /\ pc' = Set(pc, p, "done")
    /\ UNCHANGED <<data, group_count, group_index, topics, current_group, calls, error, fs,
                 topic_range, last_run>>

\* exit status of the process once it has ended
ExitStatus(p) == IF pc[p] = "done" THEN 0 ELSE 1

ReturnCodes == {0, 1}

----------------------------------------------------------------------------
(* Structure documents given to the model *)

U1 == <<"h", ":", "1">>
U2 == <<"h", ":", "2">>
Urls == {U1, U2}

\* breadcrumb lists: ["b"] and ["a", "a/b"]
CrumbsB == << <<"b">> >>
CrumbsA == << <<"a">>, <<"a", "/", "b">> >>
CrumbLists == {CrumbsA, CrumbsB}

NodeKinds == [url : Urls, crumbs : CrumbLists]
PlainKind == [url |-> U1, crumbs |-> CrumbsB]

\* a schema-conforming topic object
MkTopic(kind, subs) ==
    JObj([name |-> JStr(<<"x">>),
          url |-> JStr(kind.url),
          sub_topics |-> JArr(subs),
          breadcrumbs |-> JArr([i \in 1..Len(kind.crumbs) |-> JStr(kind.crumbs[i])])])

Without(r, key) == [k \in (DOMAIN r) \ {key} |-> r[k]]

\* ways in which one node departs from a plain topic
Defects ==
    {"no_breadcrumbs", "no_name", "no_url", "no_sub_topics",
     "name_number", "name_empty", "url_number", "url_empty", "url_malformed",
     "sub_topics_string", "extra_property",
     "breadcrumbs_empty", "breadcrumb_empty", "breadcrumbs_string", "not_object"}

Defective(defect, subs) ==
    LET t == MkTopic(PlainKind, subs).value
    IN  CASE defect = "no_breadcrumbs" -> JObj(Without(t, "breadcrumbs"))
          [] defect = "no_name" -> JObj(Without(t, "name"))
          [] defect = "no_url" -> JObj(Without(t, "url"))
          [] defect = "no_sub_topics" -> JObj(Without(t, "sub_topics"))
          [] defect = "name_number" -> JObj([t EXCEPT !["name"] = JNum(7)])
          [] defect = "name_empty" -> JObj([t EXCEPT !["name"] = JStr(<<>>)])
          [] defect = "url_number" -> JObj([t EXCEPT !["url"] = JNum(7)])
          [] defect = "url_empty" -> JObj([t EXCEPT !["url"] = JStr(<<>>)])
          [] defect = "url_malformed" -> JObj([t EXCEPT !["url"] = JStr(<<"x">>)])
          [] defect = "sub_topics_string" -> JObj([t EXCEPT !["sub_topics"] = JStr(<<"x">>)])
          [] defect = "extra_property" -> JObj(t @@ ("id" :> JNum(7)))
          [] defect = "breadcrumbs_empty" -> JObj([t EXCEPT !["breadcrumbs"] = JArr(<<>>)])
          [] defect = "breadcrumb_empty" -> JObj([t EXCEPT !["breadcrumbs"] = JArr(<<JStr(<<>>)>>)])
          [] defect = "breadcrumbs_string" -> JObj([t EXCEPT !["breadcrumbs"] = JStr(<<"x">>)])
          [] defect = "not_object" -> JNum(7)

RECURSIVE Forests(_, _, _)
\* the ordered forests of n nodes of which Len(ds) are defective, the i-th
\* of them in document order by a defect of ds[i], the others of `kinds`
Forests(n, ds, kinds) ==
    IF n = 0 THEN (IF ds = <<>> THEN {<<>>} ELSE {})
    ELSE UNION { UNION { UNION {
             { <<(IF dr = 1 THEN Defective(kind, sub) ELSE MkTopic(kind, sub))>> \o rest :
                   kind \in (IF dr = 1 THEN ds[1] ELSE kinds),
                   sub \in Forests(k - 1, SubSeq(ds, dr + 1, dr + dsub), kinds),
                   rest \in Forests(n - k, SubSeq(ds, dr + dsub + 1, Len(ds)), kinds) }
             : dsub \in 0..(Len(ds) - dr) } : dr \in 0..Min(Len(ds), 1) } : k \in 1..n }

ForestsUpTo(n, ds, kinds) == UNION { Forests(m, ds, kinds) : m \in 1..n }

\* documents whose nodes all carry breadcrumbs and conform to the schema
SoundDocs(n) == { JArr(f) : f \in ForestsUpTo(n, <<>>, NodeKinds) }

\* documents with one defective node, or with a node without breadcrumbs and
\* a second defective node; an empty root array; a root that is no array
DefectDocs(n) ==
    { JArr(f) : f \in ForestsUpTo(n, <<Defects>>, {PlainKind})
                      \cup ForestsUpTo(n, <<{"no_breadcrumbs"}, Defects>>, {PlainKind})
                      \cup ForestsUpTo(n, <<Defects, {"no_breadcrumbs"}>>, {PlainKind}) }
        \cup {JArr(<<>>), JNum(7)}

Idle == [p \in Procs |-> IF p = 1 THEN "start" ELSE "off"]
Nothing == [p \in Procs |-> <<>>]
NoError == [p \in Procs |-> "none"]

----------------------------------------------------------------------------
(* crawl.py: the worker that subprocess.run starts *)

\* "https://www.raspberrypi.com/products/", the url of every main topic
ProductsUrl == U1

\* detect_url_level(url)
detect_url_level(url) == IF url = ProductsUrl THEN "category" ELSE "product"

\* download_file: every exception of the request or of the write is caught
\* and logged, and None is returned.
download_file(raises) == IF raises THEN Ok("None") ELSE Ok("metadata")

\* the body of the try block of crawl_product_page
crawl_body(level, page, download_raises) ==
    IF page # "ok" THEN Raise("Exception")
    ELSE IF level # "product" THEN Ok("None")
    ELSE IF download_file(download_raises).err # "none"
         THEN download_file(download_raises)
         ELSE Ok("None")

\* A variant without the except clause.
crawl_product_page_uncaught(level, page, download_raises) ==
    crawl_body(level, page, download_raises)

\* crawl_product_page: `except Exception` logs whatever the body raises.
crawl_product_page(level, page, download_raises) ==
    IF crawl_body(level, page, download_raises).err # "none"
    THEN Ok("None")
    ELSE crawl_body(level, page, download_raises)

\* what can happen in one run of the worker: os.makedirs of the output
\* directory succeeds or raises; the page is rendered and its content is
\* extracted, or one of the two raises; a download raises or not; os.makedirs
\* of the tables directory (product pages only) succeeds or raises.
Runs(url) ==
    {r \in [mkdir_out : BOOLEAN,
            page : {"not_run", "ok", "render_error", "extract_error"},
            download_raises : BOOLEAN,
            mkdir_tables : BOOLEAN] :
        /\ r.mkdir_out <=> r.page # "not_run"
        /\ r.download_raises => r.page = "ok" /\ detect_url_level(url) = "product"
        /\ ~r.mkdir_tables => r.mkdir_out /\ detect_url_level(url) = "product"}

NoRun == [mkdir_out |-> TRUE, page |-> "none", download_raises |-> FALSE, mkdir_tables |-> TRUE]

\* main() of crawl.py: the exit status, and whether the output directory
\* was created. The two os.makedirs calls are outside every try.
crawl_main(url, run) ==
    IF ~run.mkdir_out THEN [rc |-> 1, made |-> FALSE]
    ELSE IF crawl_product_page(detect_url_level(url), run.page, run.download_raises).err # "none"
    THEN [rc |-> 1, made |-> TRUE]
    ELSE IF detect_url_level(url) = "product" /\ ~run.mkdir_tables
    THEN [rc |-> 1, made |-> TRUE]
    ELSE [rc |-> 0, made |-> TRUE]

\* the worker as a black box: any exit status
WorkerReturns(p) ==
    /\ \E rc \in ReturnCodes, made \in BOOLEAN : WorkerExit(p, rc, made)
    /\ UNCHANGED last_run

\* the worker as crawl.py runs it
CrawlerExits(p) ==
    /\ pc[p] = "wait"
    /\ \E run \in Runs(calls[p][Len(calls[p])].url) :
           /\ WorkerExit(p, crawl_main(calls[p][Len(calls[p])].url, run).rc,
                            crawl_main(calls[p][Len(calls[p])].url, run).made)
           /\ last_run' = Set(last_run, p, run)

----------------------------------------------------------------------------
(* Spec: one invocation of batch.py on a document *)

Init ==
    /\ \E d \in SoundDocs(MaxNodes) \cup DefectDocs(MaxNodes) : data = [p \in Procs |-> d]
    /\ group_count \in 1..MaxGroups
    /\ \E i \in 0..(group_count - 1) : group_index = [p \in Procs |-> i]
    /\ pc = Idle
    /\ topics = Nothing
    /\ current_group = Nothing
    /\ calls = Nothing
    /\ error = NoError
    /\ fs = {}
    /\ topic_range = [p \in Procs |-> STAR]
    /\ last_run = [p \in Procs |-> NoRun]

Next ==
    \E p \in Procs :
        \/ Validate(p)
        \/ Flatten(p)
        \/ Partition(p)
        \/ StartWorker(p)
        \/ WorkerReturns(p)
        \/ Finish(p)

Spec == Init /\ [][Next]_vars

----------------------------------------------------------------------------
(* SpecPartition: the partitioner and the dispatcher on sorted WorkItem
   sequences of every length 0..MaxT. The sequences are given to the
   partitioner directly, so that the length 0, which no document that passes
   the validation produces, is among them. *)

\* the sorted sequence of T WorkItems whose first s paths are a, aa, aaa, ...
\* and whose other paths are all b
SortedRun(T, s) ==
    [i \in 1..T |-> IF i <= s
                    THEN [url |-> U1, path |-> [j \in 1..i |-> "a"]]
                    ELSE [url |-> (IF i % 2 = 0 THEN U1 ELSE U2), path |-> <<"b">>]]

\* the document of roots without children that flattens to the WorkItems w
FlatDoc(w) ==
    JArr([i \in 1..Len(w) |-> MkTopic([url |-> w[i].url, crumbs |-> <<w[i].path>>], <<>>)])

InitPartition ==
    /\ \E T \in 0..MaxT : \E s \in 0..T :
           /\ topics = [p \in Procs |-> IF p = 1 THEN SortedRun(T, s) ELSE <<>>]
           /\ data = [p \in Procs |-> FlatDoc(SortedRun(T, s))]
    /\ group_count \in 1..MaxGroups
    /\ \E i \in 0..(group_count - 1) : group_index = [p \in Procs |-> i]
    /\ pc = [p \in Procs |-> IF p = 1 THEN "flattened" ELSE "off"]
    /\ current_group = Nothing
    /\ calls = Nothing
    /\ error = NoError
    /\ fs = {}
    /\ topic_range = [p \in Procs |-> STAR]
    /\ last_run = [p \in Procs |-> NoRun]

NextPartition ==
    \E p \in Procs :
        \/ Partition(p)
        \/ StartWorker(p)
        \/ WorkerReturns(p)
        \/ Finish(p)

SpecPartition == InitPartition /\ [][NextPartition]_vars

----------------------------------------------------------------------------
(* SpecPath: validation and flattening of one-node documents whose
   breadcrumbs are built from the tokens "a", "/", "_" and "_slash_" *)

Tokens == {<<"a">>, <<"/">>, <<"_">>, SLASH}

RECURSIVE TokenStrings(_)
\* the strings of 1..n tokens
TokenStrings(n) ==
    IF n = 0 THEN {}
    ELSE Tokens \cup { s \o t : s \in TokenStrings(n - 1), t \in Tokens }

CrumbInputs ==
    UNION { [1..n -> TokenStrings(MaxTokens)] : n \in 1..MaxCrumbs }

InitPath ==
    /\ \E c \in CrumbInputs :
           data = [p \in Procs |-> JArr(<<MkTopic([url |-> U1, crumbs |-> c], <<>>)>>)]
    /\ group_count = 1
    /\ group_index = [p \in Procs |-> 0]
    /\ pc = Idle
    /\ topics = Nothing
    /\ current_group = Nothing
    /\ calls = Nothing
    /\ error = NoError
    /\ fs = {}
    /\ topic_range = [p \in Procs |-> STAR]
    /\ last_run = [p \in Procs |-> NoRun]

NextPath == \E p \in Procs : Validate(p) \/ Flatten(p)

SpecPath == InitPath /\ [][NextPath]_vars

----------------------------------------------------------------------------
(* SpecPair: two invocations of batch.py running concurrently, on documents
   that flatten to the same collection of WorkItems *)

Range(s) == {s[i] : i \in 1..Len(s)}
Count(s, x) == Cardinality({i \in 1..Len(s) : s[i] = x})

\* s and t hold the same elements, each as many times
SameItems(s, t) ==
    /\ Len(s) = Len(t)
    /\ \A x \in Range(s) \cup Range(t) : Count(s, x) = Count(t, x)

InitPair ==
    /\ \E d \in SoundDocs(PairMaxNodes) :
       \E e \in {x \in SoundDocs(PairMaxNodes) :
                     SameItems(flat_map(x.value).val, flat_map(d.value).val)} :
           data = [p \in Procs |-> IF p = 1 THEN d ELSE e]
    /\ group_count \in 1..PairMaxNodes
    /\ group_index \in [Procs -> 0..(group_count - 1)]
    /\ pc = [p \in Procs |-> "start"]
    /\ topics = Nothing
    /\ current_group = Nothing
    /\ calls = Nothing
    /\ error = NoError
    /\ fs = {}
    /\ topic_range = [p \in Procs |-> STAR]
    /\ last_run = [p \in Procs |-> NoRun]

SpecPair == InitPair /\ [][Next]_vars

----------------------------------------------------------------------------
(* Vocabulary of the properties *)

\* invocation p has computed current_group
Partitioned(p) ==
    \/ pc[p] \in {"loop", "wait", "done"}
    \/ pc[p] = "failed" /\ error[p] = "CalledProcessError"

\* invocation p has computed the sorted topics
Flattened(p) == pc[p] = "flattened" \/ Partitioned(p)

RECURSIVE Concat(_)
\* the concatenation of a sequence of sequences
Concat(ss) == IF ss = <<>> THEN <<>> ELSE Head(ss) \o Concat(Tail(ss))

\* the least n with n * count >= T
Ceiling(T, count) == CHOOSE n \in 0..T : n * count >= T /\ (n - 1) * count < T

\* the elements of s at the 0-based positions [lo, hi)
Positions(s, lo, hi) == [k \in 1..(IF hi > lo THEN hi - lo ELSE 0) |-> s[lo + k]]

Running(p) == {k \in 1..Len(calls[p]) : calls[p][k].status = "running"}

----------------------------------------------------------------------------
(* C1: partition completeness. For a sorted WorkItem sequence of any length
   T >= 0 and any group_count >= 1, the batches selected for group_index
   0, 1, ..., group_count-1, concatenated in that order, are the sorted
   sequence itself: nothing omitted, nothing twice, order unchanged; and the
   batch an invocation holds is the one of its own group_index. *)
PartitionComplete ==
    \A p \in Procs :
        Partitioned(p) =>
            LET parts == [i \in 1..group_count |-> batch(topics[p], i - 1, group_count)]
            IN  /\ Concat(parts) = topics[p]
                /\ current_group[p] = parts[group_index[p] + 1]

\* seven WorkItems in four groups: batches of 2, 2, 2 and 1
PartitionCompleteWitness ==
    /\ pc[1] = "loop"
    /\ Len(topics[1]) = 7
    /\ group_count = 4
    /\ group_index[1] = 3
    /\ Len(current_group[1]) = 1

(* C2: the batch of group_index i is the elements at positions
   [i * batch_size, min((i+1) * batch_size, T)) with batch_size the ceiling
   of T / group_count; T = 10 in 3 groups gives lengths 4, 4, 2; with
   group_count > T the batches of the highest indices are empty and the run
   ends without an error. *)
BatchPositions ==
    \A p \in Procs :
        Partitioned(p) =>
            LET T == Len(topics[p])
                i == group_index[p]
                size == Ceiling(T, group_count)
            IN  /\ current_group[p] =
                       Positions(topics[p], i * size, Min((i + 1) * size, T))
                /\ T = 10 /\ group_count = 3 =>
                       Len(current_group[p]) = <<4, 4, 2>>[i + 1]
                /\ i >= T => current_group[p] = <<>>
                /\ current_group[p] = <<>> => pc[p] \in {"loop", "done"} /\ error[p] = "none"

\* ten WorkItems in three groups: the last invocation has run its two workers
BatchPositionsWitness ==
    /\ pc[1] = "done"
    /\ Len(topics[1]) = 10
    /\ group_count = 3
    /\ group_index[1] = 2
    /\ Len(calls[1]) = 2

(* C3: two concurrent invocations on the same document and group_count with
   different group_index hand no output directory to a worker twice. *)
DisjointOutputDirs ==
    data[1] = data[2] /\ group_index[1] # group_index[2] =>
        \A j \in 1..Len(calls[1]) : \A k \in 1..Len(calls[2]) :
            calls[1][j].out # calls[2][k].out

(* C4: the dispatcher runs one worker per WorkItem of the selected batch, in
   batch order, with (url, output_dir/relative_path); a worker is started
   only after the one before it has exited, so at most one is running; when
   no worker fails every WorkItem of the batch, and no other, is dispatched. *)
SequentialDispatch ==
    \A p \in Procs :
        LET n == Len(calls[p])
            group == current_group[p]
        IN  /\ n <= Len(group)
            /\ \A k \in 1..n :
                   /\ calls[p][k].url = group[k].url
                   /\ calls[p][k].out = OutputDir \o <<"/">> \o group[k].path
            /\ \A k \in 1..(n - 1) : calls[p][k].status = "ok"
            /\ Cardinality(Running(p)) <= 1
            /\ Running(p) # {} <=> pc[p] = "wait"
            /\ Partitioned(p) => group = batch(topics[p], group_index[p], group_count)
            /\ pc[p] = "done" =>
                   /\ n = Len(group)
                   /\ \A k \in 1..n : calls[p][k].status = "ok"

\* a run that dispatched a batch of two or more WorkItems and ended
SequentialDispatchWitness ==
    /\ pc[1] = "done"
    /\ Len(calls[1]) >= 2
    /\ Len(topics[1]) > Len(calls[1])

(* C5: a worker that exits non-zero ends the dispatch at once: it is the
   last worker invoked, it is not run again, the workers before it completed
   and their output directories stay, and the process ends failed with a
   non-zero exit status. *)
WorkerFailureAborts ==
    \A p \in Procs : \A k \in 1..Len(calls[p]) :
        calls[p][k].status = "failed" =>
            /\ k = Len(calls[p])
            /\ pc[p] = "failed"
            /\ error[p] = "CalledProcessError"
            /\ ExitStatus(p) # 0
            /\ \A j \in 1..(k - 1) : calls[p][j].status = "ok" /\ calls[p][j].out \in fs

\* the second worker of a batch of three or more failed
WorkerFailureAbortsWitness ==
    /\ Len(calls[1]) = 2
    /\ calls[1][2].status = "failed"
    /\ Len(current_group[1]) >= 3
    /\ pc[1] = "failed"

RECURSIVE Lacks(_)
\* some topic object among `items` or below has no "breadcrumbs" key
Lacks(items) ==
    \E i \in 1..Len(items) :
        LET t == items[i]
        IN  /\ t.type = "object"
            /\ \/ "breadcrumbs" \notin DOMAIN t.value
               \/ /\ "sub_topics" \in DOMAIN t.value
                  /\ t.value["sub_topics"].type = "array"
                  /\ Lacks(t.value["sub_topics"].value)

LacksBreadcrumbs(d) == d.type = "array" /\ Lacks(d.value)

(* C6: a node without a "breadcrumbs" key anywhere in the forest makes the
   run fail with no worker dispatched and no WorkItem produced: a document
   that passes validation fails in the flattening with KeyError, one that
   does not fails in the validation. *)
MissingBreadcrumbsAborts ==
    \A p \in Procs :
        pc[p] # "off" /\ LacksBreadcrumbs(data[p]) =>
            /\ pc[p] \in {"start", "validated", "failed"}
            /\ topics[p] = <<>>
            /\ current_group[p] = <<>>
            /\ calls[p] = <<>>
            /\ pc[p] = "failed" =>
                   error[p] = IF validate(data[p]) THEN "KeyError" ELSE "ValidationError"

\* a document whose first root has breadcrumbs and a later node has none
MissingBreadcrumbsAbortsWitness ==
    /\ pc[1] = "failed"
    /\ error[1] = "KeyError"
    /\ "breadcrumbs" \in DOMAIN data[1].value[1].value
    /\ LacksBreadcrumbs(data[1])

(* C7: a document that violates the schema at any node (a missing required
   field, a wrong type, an empty string, a malformed URI, an additional
   property, an empty root array) aborts in the validation: nothing is
   flattened and no worker is dispatched. *)
SchemaViolationAborts ==
    \A p \in Procs :
        pc[p] # "off" /\ ~SchemaOk(data[p], TRUE) =>
            /\ pc[p] \in {"start", "failed"}
            /\ pc[p] = "failed" => error[p] = "ValidationError"
            /\ topics[p] = <<>>
            /\ calls[p] = <<>>

RECURSIVE IndexPaths(_)
\* the nodes of a forest, each named by the child indices that lead to it
IndexPaths(items) ==
    UNION { {<<i>>} \cup { <<i>> \o q : q \in IndexPaths(items[i].value["sub_topics"].value) }
            : i \in 1..Len(items) }

RECURSIVE NodeAt(_, _)
NodeAt(items, q) ==
    IF Len(q) = 1 THEN items[q[1]]
    ELSE NodeAt(items[q[1]].value["sub_topics"].value, Tail(q))

\* document order of two index paths: an ancestor first, then by sibling index
Before(q, r) ==
    \E i \in 1..(Min(Len(q), Len(r)) + 1) :
        /\ \A j \in 1..(i - 1) : q[j] = r[j]
        /\ \/ i > Len(q) /\ i <= Len(r)
           \/ i <= Len(q) /\ i <= Len(r) /\ q[i] < r[i]

RECURSIVE InOrder(_)
\* the index paths of S in document order
InOrder(S) ==
    IF S = {} THEN <<>>
    ELSE LET first == CHOOSE q \in S : \A r \in S \ {q} : Before(q, r)
         IN  <<first>> \o InOrder(S \ {first})

\* the WorkItem of one node
ItemOf(t) ==
    [url |-> t.value["url"].value,
     path |-> path_of([i \in 1..Len(t.value["breadcrumbs"].value) |->
                           t.value["breadcrumbs"].value[i].value])]

\* one WorkItem per node, parents before children, siblings in document order
PreOrderItems(d) ==
    LET order == InOrder(IndexPaths(d.value))
    IN  [i \in 1..Len(order) |-> ItemOf(NodeAt(d.value, order[i]))]

(* C8: for a valid document the flattener yields one WorkItem per node of
   the forest, inner nodes and roots included, in pre-order before the sort:
   the sorted topics hold exactly the pre-order WorkItems, as many as there
   are nodes. *)
FlattenPreOrder ==
    \A p \in Procs :
        Flattened(p) =>
            LET flat == flat_map(data[p].value)
            IN  /\ flat.err = "none"
                /\ flat.val = PreOrderItems(data[p])
                /\ Len(topics[p]) = Cardinality(IndexPaths(data[p].value))
                /\ SameItems(topics[p], PreOrderItems(data[p]))

\* a root with a child, followed by a second root, which the sort moves
FlattenPreOrderWitness ==
    /\ pc[1] = "flattened"
    /\ IndexPaths(data[1].value) = {<<1>>, <<1, 1>>, <<2>>}
    /\ Cardinality(Range(topics[1])) = 3
    /\ topics[1] # PreOrderItems(data[1])

RECURSIVE split(_)
\* s.split("/")
split(s) ==
    IF \A i \in 1..Len(s) : s[i] # "/" THEN <<s>>
    ELSE LET i == CHOOSE j \in 1..Len(s) : s[j] = "/" /\ \A k \in 1..(j - 1) : s[k] # "/"
         IN  <<SubSeq(s, 1, i - 1)>> \o split(SubSeq(s, i + 1, Len(s)))

RECURSIVE restore_slash(_)
\* s.replace("_slash_", "/")
restore_slash(s) ==
    IF s = <<>> THEN <<>>
    ELSE IF Len(s) >= Len(SLASH) /\ SubSeq(s, 1, Len(SLASH)) = SLASH
         THEN <<"/">> \o restore_slash(SubSeq(s, Len(SLASH) + 1, Len(s)))
         ELSE <<Head(s)>> \o restore_slash(Tail(s))

(* C9: path round trip. Splitting relative_path on "/" gives as many parts
   as the node has breadcrumbs, and replacing "_slash_" by "/" in each part
   gives the breadcrumbs back, whatever the breadcrumb strings are. *)
PathRoundTrip ==
    \A p \in Procs :
        pc[p] = "flattened" =>
            LET crumbs == data[p].value[1].value["breadcrumbs"].value
                parts == split(topics[p][1].path)
            IN  /\ Len(parts) = Len(crumbs)
                /\ \A i \in 1..Len(parts) : restore_slash(parts[i]) = crumbs[i].value

\* topics is in ascending order of path
SortedByPath(s) == \A i \in 1..(Len(s) - 1) : ~StrLess(s[i + 1].path, s[i].path)

(* C10: the flattened sequence is sorted by relative_path, and two documents
   that produce the same collection of WorkItems give the same sorted
   sequence, hence the same batch for the same (group_index, group_count). *)
SortDeterministic ==
    /\ \A p \in Procs : Flattened(p) => SortedByPath(topics[p])
    /\ Flattened(1) /\ Flattened(2) => topics[1] = topics[2]
    /\ Partitioned(1) /\ Partitioned(2) /\ group_index[1] = group_index[2] =>
           current_group[1] = current_group[2]

----------------------------------------------------------------------------
(* SpecRange: one invocation with a --topic_range *)

TopicRanges ==
    {STAR, <<"0", "-", "1">>, <<"1", "-", "2">>, <<"2", "-", "1">>, <<"1", "0", "-", "1">>,
     <<"+", "1", "-", "2">>, <<"x">>, <<"1">>, <<"1", "-", "x">>,
     <<"-", "1", "-", "2">>, <<"1", "-", "2", "-", "1">>, <<>>}

InitRange ==
    /\ \E d \in SoundDocs(RangeMaxNodes) : data = [p \in Procs |-> d]
    /\ group_count \in 1..MaxGroups
    /\ \E i \in 0..(group_count - 1) : group_index = [p \in Procs |-> i]
    /\ \E r \in TopicRanges : topic_range = [p \in Procs |-> r]
    /\ pc = Idle
    /\ topics = Nothing
    /\ current_group = Nothing
    /\ calls = Nothing
    /\ error = NoError
    /\ fs = {}
    /\ last_run = [p \in Procs |-> NoRun]

SpecRange == InitRange /\ [][Next]_vars

----------------------------------------------------------------------------
(* SpecWorker: one invocation whose workers are runs of crawl.py *)

InitWorker ==
    /\ \E d \in SoundDocs(WorkerMaxNodes) : data = [p \in Procs |-> d]
    /\ group_count \in 1..MaxGroups
    /\ \E i \in 0..(group_count - 1) : group_index = [p \in Procs |-> i]
    /\ topic_range = [p \in Procs |-> STAR]
    /\ pc = Idle
    /\ topics = Nothing
    /\ current_group = Nothing
    /\ calls = Nothing
    /\ error = NoError
    /\ fs = {}
    /\ last_run = [p \in Procs |-> NoRun]

NextWorker ==
    \E p \in Procs :
        \/ Validate(p)
        \/ Flatten(p)
        \/ Partition(p)
        \/ StartWorker(p)
        \/ CrawlerExits(p)
        \/ Finish(p)

SpecWorker == InitWorker /\ [][NextWorker]_vars

----------------------------------------------------------------------------
(* Properties of --topic_range and of the crawl worker *)

\* "*", or two runs of decimal digits with one "-" between them
AcceptedRange(s) ==
    \/ s = STAR
    \/ \E i \in 2..(Len(s) - 1) :
           /\ s[i] = "-"
           /\ \A j \in (1..Len(s)) \ {i} : IsDigit(s[j])

\* the WorkItems invocation p is to dispatch, from its document, its
\* group_index and group_count alone
ExpectedGroup(p) ==
    LET all == sorted(flat_map(data[p].value).val)
        size == Ceiling(Len(all), group_count)
    IN  Positions(all, group_index[p] * size, Min((group_index[p] + 1) * size, Len(all)))

(* C11: topic_range is a no-op filter. For every accepted topic_range ("*" or
   a start-end pair of integers) the run does not fail on the value, the
   topic list is the whole sorted flattening of the document, the selected
   batch is the one group_index and group_count select from it, and the
   workers dispatched are those of that batch, in order: all of them are
   determined by the document, group_index, group_count and output_dir, and
   none depends on the topic_range value. *)
RangeIgnored ==
    \A p \in Procs :
        AcceptedRange(topic_range[p]) =>
            /\ error[p] # "ValueError"
            /\ Flattened(p) => topics[p] = sorted(flat_map(data[p].value).val)
            /\ Partitioned(p) => current_group[p] = ExpectedGroup(p)
            /\ Len(calls[p]) <= Len(ExpectedGroup(p))
            /\ \A k \in 1..Len(calls[p]) :
                   /\ calls[p][k].url = ExpectedGroup(p)[k].url
                   /\ calls[p][k].out = OutputDir \o <<"/">> \o ExpectedGroup(p)[k].path
            /\ pc[p] = "done" => Len(calls[p]) = Len(ExpectedGroup(p))

\* a run with --topic_range 0-1 that dispatched both WorkItems of its
\* document and ended
RangeIgnoredWitness ==
    /\ topic_range[1] = <<"0", "-", "1">>
    /\ pc[1] = "done"
    /\ Len(calls[1]) = 2
    /\ Len(topics[1]) = 2

\* the call of invocation p whose worker exited last
LastExited(p) == IF pc[p] = "wait" THEN Len(calls[p]) - 1 ELSE Len(calls[p])

\* rendering, extracting or downloading raised in the run
CrawlError(run) ==
    \/ run.page \in {"render_error", "extract_error"}
    \/ run.download_raises

(* C12: the crawl worker never turns a crawl error into a failure outcome.
   When rendering the page, extracting its content or downloading a file
   raised in a worker whose directories were created, the worker exited with
   status zero: its call is recorded as completed, the invocation is not
   failed and goes on with the next WorkItem. A call is recorded as failed
   only when creating a directory failed in the worker, and an invocation
   that ended has dispatched its whole batch. *)
CrawlErrorNotFailure ==
    \A p \in Procs :
        last_run[p] # NoRun =>
            /\ LastExited(p) \in 1..Len(calls[p])
            /\ CrawlError(last_run[p]) /\ last_run[p].mkdir_out /\ last_run[p].mkdir_tables =>
                   /\ calls[p][LastExited(p)].status = "ok"
                   /\ pc[p] \in {"loop", "wait", "done"}
                   /\ error[p] = "none"
            /\ calls[p][LastExited(p)].status = "failed" =>
                   ~(last_run[p].mkdir_out /\ last_run[p].mkdir_tables)
            /\ pc[p] = "done" => Len(calls[p]) = Len(current_group[p])

\* the page of the first WorkItem could not be rendered, and the worker of
\* the second WorkItem has been started
CrawlErrorNotFailureWitness ==
    /\ last_run[1].page = "render_error"
    /\ Len(calls[1]) = 2
    /\ calls[1][1].status = "ok"
    /\ calls[1][2].status = "running"

====
